---- MODULE Spec2Model ----
(***************************************************************************)
(* Model of validate_commit_msg/validate.py: the commit-message linter     *)
(* (check_header, check_body, validate_commit_message, main).              *)
(*                                                                         *)
(* A Python str is a sequence of one-character strings.  One run of the    *)
(* program is one behaviour: main() from the command line to the exit      *)
(* status, one action per step of main and of validate_commit_message.     *)
(***************************************************************************)
EXTENDS Integers, Sequences, FiniteSets

VARIABLES
    argv,         \* sys.argv[1:]: <<>> or <<path>>
    file,         \* what lies at the path: [kind: "missing" | "unreadable" | "text", text]
    pc,           \* position in main / validate_commit_message
    message,      \* commit_msg, the argument of validate_commit_message
    header,       \* validate_commit_message's local `header`
    body,         \* validate_commit_message's local `body`
    out,          \* the calls of print_error_msg so far, in order
    calls,        \* what has been called so far: "exists", "open", "validate", "check_header", "check_body"
    headerRet,    \* check_header's return: [called, ok, out]
    bodyRet,      \* check_body's return:   [called, ok, out]
    result,       \* validate_commit_message's outcome: "none", "True", "False", "ValueError"
    exitCode      \* the process's exit status, -1 while it runs

vars == <<argv, file, pc, message, header, body, out, calls, headerRet, bodyRet, result, exitCode>>

---------------------------------------------------------------------------
(* Constants of the program *)

LINE_LIMIT == 100

BODY_REQUIRED == FALSE

feat     == <<"f","e","a","t">>
fix      == <<"f","i","x">>
docs     == <<"d","o","c","s">>
style    == <<"s","t","y","l","e">>
refactor == <<"r","e","f","a","c","t","o","r">>
perf     == <<"p","e","r","f">>
test     == <<"t","e","s","t">>
chore    == <<"c","h","o","r","e">>
revert   == <<"r","e","v","e","r","t">>
Revert   == <<"R","e","v","e","r","t">>

TYPE_LIST == {feat, fix, docs, style, refactor, perf, test, chore, revert, Revert}

NON_FORMAT_ERROR == {"VALIDATED", "MERGE", "ARG_MISSING", "FILE_MISSING"}

\* r'^Merge ': the literal the pattern matches at the start of the text
MERGE_PATTERN == <<"M","e","r","g","e"," ">>

FixupPrefix  == <<"f","i","x","u","p","!"," ">>
SquashPrefix == <<"s","q","u","a","s","h","!"," ">>

---------------------------------------------------------------------------
(* Character classes and the str methods the program uses *)

\* str.isspace(), what str.strip() removes and what \s matches
Whitespace == {" ", "\t", "\n", "\r", "\f"}

\* what \w matches: letters, digits and the underscore
WordChars ==
    {"a","b","c","d","e","f","g","h","i","j","k","l","m","n","o","p","q","r","s","t","u",
     "v","w","x","y","z","M","R","0","1","2","_"}

\* the line boundaries of str.splitlines()
LineBreaks == {"\n", "\r", "\f"}

StartsWith(s, p) == Len(s) >= Len(p) /\ SubSeq(s, 1, Len(p)) = p

\* s.strip()
Strip(s) ==
    LET keep == {i \in 1..Len(s) : s[i] \notin Whitespace}
    IN  IF keep = {} THEN <<>>
        ELSE LET a == CHOOSE i \in keep : \A j \in 1..(i-1) : j \notin keep
                 b == CHOOSE i \in keep : \A j \in (i+1)..Len(s) : j \notin keep
             IN  SubSeq(s, a, b)

\* s.split('\n', maxsplit=1): one part when s holds no newline, else two
Split1(s) ==
    IF \A i \in 1..Len(s) : s[i] # "\n" THEN <<s>>
    ELSE LET n == CHOOSE i \in 1..Len(s) : s[i] = "\n" /\ \A j \in 1..(i-1) : s[j] # "\n"
         IN  <<SubSeq(s, 1, n-1), SubSeq(s, n+1, Len(s))>>

\* s.splitlines() from position `start` on: lines end at a line boundary ("\r\n" is
\* one boundary), the boundary is dropped, and no empty line follows the last boundary
RECURSIVE SplitLinesFrom(_, _)
SplitLinesFrom(s, start) ==
    IF start > Len(s) THEN <<>>
    ELSE IF \A i \in start..Len(s) : s[i] \notin LineBreaks
         THEN <<SubSeq(s, start, Len(s))>>
         ELSE LET b == CHOOSE i \in start..Len(s) :
                          s[i] \in LineBreaks /\ \A j \in start..(i-1) : s[j] \notin LineBreaks
                  e == IF s[b] = "\r" /\ b < Len(s) /\ s[b+1] = "\n" THEN b + 1 ELSE b
              IN  <<SubSeq(s, start, b-1)>> \o SplitLinesFrom(s, e + 1)

SplitLines(s) == SplitLinesFrom(s, 1)

---------------------------------------------------------------------------
(* HEADER_PATTERN = r'^((fixup! |squash! )?(\w+)(?:\(([^\)\s]+)\))?: (.+))(?:\n|$)' *)

\* the last index of the longest run of characters of `set` that starts at p (p-1: no run)
RunIn(s, p, set) ==
    IF \A i \in p..Len(s) : s[i] \in set THEN Len(s)
    ELSE (CHOOSE i \in p..Len(s) : s[i] \notin set /\ \A j \in p..(i-1) : s[j] \in set) - 1

\* the same for the characters outside `set`
RunNotIn(s, p, set) ==
    IF \A i \in p..Len(s) : s[i] \notin set THEN Len(s)
    ELSE (CHOOSE i \in p..Len(s) : s[i] \in set /\ \A j \in p..(i-1) : s[j] \notin set) - 1

NoMatch == [matched |-> FALSE, prefix |-> <<>>, type |-> <<>>, scope |-> <<>>, subject |-> <<>>]

\* (\w+)(?:\(([^\)\s]+)\))?: (.+)(?:\n|$) tried right after `prefix`.  Each greedy
\* run is the longest one: a shorter \w+ or [^\)\s]+ would be followed by a character
\* of its own class where the pattern wants '(' , ':' or ')', and .+ stops only at a
\* newline or at the end, where (?:\n|$) matches.
MatchAfter(s, prefix) ==
    LET p      == Len(prefix) + 1
        tEnd   == RunIn(s, p, WordChars)
        q      == tEnd + 1
        scEnd  == RunNotIn(s, q + 1, {")"} \cup Whitespace)
        scoped == /\ q <= Len(s) /\ s[q] = "("
                  /\ scEnd >= q + 1
                  /\ scEnd + 1 <= Len(s) /\ s[scEnd + 1] = ")"
        r      == IF scoped THEN scEnd + 2 ELSE q
        sEnd   == RunNotIn(s, r + 2, {"\n"})
    IN  IF /\ StartsWith(s, prefix)
           /\ tEnd >= p
           /\ r + 1 <= Len(s) /\ s[r] = ":" /\ s[r + 1] = " "
           /\ sEnd >= r + 2
        THEN [matched |-> TRUE, prefix |-> prefix, type |-> SubSeq(s, p, tEnd),
              scope |-> IF scoped THEN SubSeq(s, q + 1, scEnd) ELSE <<>>,
              subject |-> SubSeq(s, r + 2, sEnd)]
        ELSE NoMatch

\* re.match(HEADER_PATTERN, s): the alternatives of (fixup! |squash! )? in the order
\* the regex engine tries them
HeaderMatch(s) ==
    IF MatchAfter(s, FixupPrefix).matched THEN MatchAfter(s, FixupPrefix)
    ELSE IF MatchAfter(s, SquashPrefix).matched THEN MatchAfter(s, SquashPrefix)
    ELSE MatchAfter(s, <<>>)

\* (variant: re.fullmatch in place of re.match)
MergeMatch_Full(m) == m = MERGE_PATTERN
\* re.match(MERGE_PATTERN, message)
MergeMatch(m) == StartsWith(m, MERGE_PATTERN)

---------------------------------------------------------------------------
(* print_error_msg and the two checks *)

\* one call print_error_msg(state, **kwargs): the kind, the keyword arguments
\* (length; line, header, type or filepath as `text`) and whether RULE_MESSAGE follows
Diag(state, length, text) ==
    [state |-> state, length |-> length, text |-> text, rule |-> state \notin NON_FORMAT_ERROR]

\* (variant: >= in place of >)
HeaderOverlong_AtLimit(length, fixup_or_squash, type_) ==
    length >= LINE_LIMIT /\ ~(fixup_or_squash \/ type_ = revert \/ type_ = Revert)
\* line 158: length > LINE_LIMIT and not (fixup_or_squash or type_ == 'revert' or type_ == 'Revert')
HeaderOverlong(length, fixup_or_squash, type_) ==
    length > LINE_LIMIT /\ ~(fixup_or_squash \/ type_ = revert \/ type_ = Revert)

\* lines 152-153: the diagnostics of the type check, which returns nothing
TypeCheck(type_) ==
    IF type_ \notin TYPE_LIST THEN <<Diag("WRONG_TYPE", 0, type_)>> ELSE <<>>

\* (variant: return False right after WRONG_TYPE)
check_header_StrictType(h) ==
    IF Strip(h) = <<>>
    THEN [ok |-> FALSE, out |-> <<Diag("EMPTY_HEADER", 0, <<>>)>>]
    ELSE LET match == HeaderMatch(h) IN
         IF ~match.matched
         THEN [ok |-> FALSE, out |-> <<Diag("BAD_HEADER_FORMAT", 0, h)>>]
         ELSE IF match.type \notin TYPE_LIST
              THEN [ok |-> FALSE, out |-> TypeCheck(match.type)]
              ELSE IF HeaderOverlong(Len(h), match.prefix # <<>>, match.type)
                   THEN [ok |-> FALSE, out |-> <<Diag("LINE_OVERLONG", Len(h), h)>>]
                   ELSE [ok |-> TRUE, out |-> <<>>]
\* (variant: without the test of lines 137-139)
check_header_NoEmptyCheck(h) ==
    LET match == HeaderMatch(h) IN
    IF ~match.matched
    THEN [ok |-> FALSE, out |-> <<Diag("BAD_HEADER_FORMAT", 0, h)>>]
    ELSE IF HeaderOverlong(Len(h), match.prefix # <<>>, match.type)
         THEN [ok |-> FALSE,
               out |-> TypeCheck(match.type) \o <<Diag("LINE_OVERLONG", Len(h), h)>>]
         ELSE [ok |-> TRUE, out |-> TypeCheck(match.type)]
\* check_header(header): [ok: the return value, out: its print_error_msg calls]
check_header(h) ==
    IF Strip(h) = <<>>
    THEN [ok |-> FALSE, out |-> <<Diag("EMPTY_HEADER", 0, <<>>)>>]
    ELSE LET match == HeaderMatch(h) IN
         IF ~match.matched
         THEN [ok |-> FALSE, out |-> <<Diag("BAD_HEADER_FORMAT", 0, h)>>]
         ELSE LET fixup_or_squash == match.prefix # <<>>
                  type_  == match.type
                  length == Len(h)
              IN  IF HeaderOverlong(length, fixup_or_squash, type_)
                  THEN [ok |-> FALSE,
                        out |-> TypeCheck(type_) \o <<Diag("LINE_OVERLONG", length, h)>>]
                  ELSE [ok |-> TRUE, out |-> TypeCheck(type_)]

\* (variant: >= in place of >)
OverlongLines_AtLimit(lines) == {i \in 1..Len(lines) : Len(lines[i]) >= LINE_LIMIT}
\* lines 178-180: the lines of body.splitlines() longer than LINE_LIMIT
OverlongLines(lines) == {i \in 1..Len(lines) : Len(lines[i]) > LINE_LIMIT}

\* lines 180-182: the loop stops at the first of them
FirstOverlong(lines) ==
    CHOOSE i \in OverlongLines(lines) : \A j \in OverlongLines(lines) : i <= j

\* (variant: the loop of lines 178-182 before the test of line 174)
check_body_LengthFirst(b) ==
    LET lines == SplitLines(b) IN
    IF Strip(b) = <<>>
    THEN [ok |-> TRUE, out |-> <<>>]
    ELSE IF OverlongLines(lines) # {}
         THEN LET line == lines[FirstOverlong(lines)]
              IN  [ok |-> FALSE, out |-> <<Diag("LINE_OVERLONG", Len(line), line)>>]
         ELSE IF Split1(b)[1] # <<>>
              THEN [ok |-> FALSE, out |-> <<Diag("NO_BLANK_LINE_BEFORE_BODY", 0, <<>>)>>]
              ELSE [ok |-> TRUE, out |-> <<>>]
\* check_body(body): [ok: the return value, out: its print_error_msg calls]
check_body(b) ==
    IF Strip(b) = <<>>
    THEN IF BODY_REQUIRED
         THEN [ok |-> FALSE, out |-> <<Diag("BODY_MISSING", 0, <<>>)>>]
         ELSE [ok |-> TRUE, out |-> <<>>]
    ELSE IF Split1(b)[1] # <<>>
         THEN [ok |-> FALSE, out |-> <<Diag("NO_BLANK_LINE_BEFORE_BODY", 0, <<>>)>>]
         ELSE LET lines == SplitLines(b) IN
              IF OverlongLines(lines) # {}
              THEN LET line == lines[FirstOverlong(lines)]
                   IN  [ok |-> FALSE, out |-> <<Diag("LINE_OVERLONG", Len(line), line)>>]
              ELSE [ok |-> TRUE, out |-> <<>>]

---------------------------------------------------------------------------
(* The inputs: the command line and the file it names *)

\* how many lines may follow the header line
MaxBodyLines == 2

\* how far past LINE_LIMIT a line may reach
MaxExtra == 1

Pad(c, n) == [i \in 1..n |-> c]

\* s, lengthened with 'x' to n characters when it is shorter
PadTo(s, n) == IF n > Len(s) THEN s \o Pad("x", n - Len(s)) ELSE s

\* the lengths lines are brought to: 0 leaves a line as short as it is
LongLengths == LINE_LIMIT..(LINE_LIMIT + MaxExtra)

foo == <<"f","o","o">>

Prefixes == {<<>>, FixupPrefix, SquashPrefix}
Types    == {feat, foo, revert, Revert}
Scopes   == {<<>>, <<"(","s",")">>}

\* headers of the form the convention asks for, short and long
FormedHeaders ==
    {PadTo(p \o t \o sc \o <<":"," ","x">>, n) :
        p \in Prefixes, t \in Types, sc \in Scopes, n \in {0} \cup LongLengths}

\* other first lines, short and one past the limit
OtherStems ==
    { <<>>,
      <<" ">>,
      <<"u","p","d","a","t","e"," ","s","t","u","f","f">>,
      <<"f","e","a","t",":","x">>,
      <<"f","e","a","t",":"," ">>,
      <<"f","e","a","t","(",")",":"," ","x">>,
      <<"f","e","a","t","("," ",")",":"," ","x">>,
      <<" ","f","e","a","t",":"," ","x">>,
      <<"f","i","x","u","p","!"," ",":"," ","x">>,
      <<"M","e","r","g","e"," ","x">>,
      <<"M","e","r","g","e"," ">>,
      <<"M","e","r","g","e">> }

OtherHeaders ==
    OtherStems \cup {PadTo(h, LINE_LIMIT + 1) : h \in OtherStems \ {<<"f","e","a","t",":"," ">>}}
        \cup {Pad(" ", LINE_LIMIT + 1)}

HeaderLines == FormedHeaders \cup OtherHeaders

\* a line of LINE_LIMIT + 1 characters between two newlines that a form feed divides
\* into two lines of str.splitlines()
DividedLine == Pad("x", LINE_LIMIT \div 2) \o <<"\f">> \o Pad("x", LINE_LIMIT \div 2)

BodyLines ==
    {<<>>, <<" ">>, <<"x">>, Pad(" ", LINE_LIMIT + 1), DividedLine}
        \cup {Pad("x", n) : n \in LongLengths}

RECURSIVE Join(_)
Join(ls) == IF Len(ls) = 1 THEN ls[1] ELSE ls[1] \o <<"\n">> \o Join(Tail(ls))

BodyTexts == {Join(ls) : ls \in UNION {[1..k -> BodyLines] : k \in 1..MaxBodyLines}}

\* first lines and rests that are combined with every rest and every first line
SampleHeaders ==
    { feat \o <<":"," ","x">>,
      foo \o <<":"," ","x">>,
      PadTo(feat \o <<":"," ","x">>, LINE_LIMIT + 1),
      PadTo(FixupPrefix \o foo \o <<":"," ","x">>, LINE_LIMIT + 1),
      <<" ">>,
      <<"u","p","d","a","t","e"," ","s","t","u","f","f">> }

SampleBodies ==
    { <<>>, <<"x">>, <<"\n","x">>, <<"\n">> \o Pad("x", LINE_LIMIT + 1) }

\* the texts a message file may hold: a first line alone, or a first line, a newline
\* and the rest
Messages ==
    HeaderLines
        \cup {h \o <<"\n">> \o b : h \in HeaderLines, b \in SampleBodies}
        \cup {h \o <<"\n">> \o b : h \in SampleHeaders, b \in BodyTexts}

Path == <<"m","s","g">>

TextFile(m) == [kind |-> "text", text |-> m]
Missing     == [kind |-> "missing", text |-> <<>>]
Unreadable  == [kind |-> "unreadable", text |-> <<>>]

NotCalled == [called |-> FALSE, ok |-> FALSE, out |-> <<>>]

Init ==
    /\ \/ /\ argv = <<Path>>
          /\ file \in {Missing, Unreadable} \cup {TextFile(m) : m \in Messages}
       \/ /\ argv \in {<<>>, <<<<>>>>}
          /\ file \in {Missing, TextFile(feat \o <<":"," ","x","\n">>)}
    /\ pc = "main"
    /\ message = <<>>
    /\ header = <<>>
    /\ body = <<>>
    /\ out = <<>>
    /\ calls = <<>>
    /\ headerRet = NotCalled
    /\ bodyRet = NotCalled
    /\ result = "none"
    /\ exitCode = -1

---------------------------------------------------------------------------
(* main *)

\* lines 217-220: file_path = sys.argv[1] if len(sys.argv) > 1 else None; a missing
\* or empty path prints ARG_MISSING and exits with 1
ArgCheck ==
    /\ pc = "main"
    /\ LET file_path == IF Len(argv) > 0 THEN argv[1] ELSE <<>> IN
       IF file_path = <<>>
       THEN /\ out' = Append(out, Diag("ARG_MISSING", 0, <<>>))
            /\ exitCode' = 1
            /\ pc' = "exited"
       ELSE /\ pc' = "exists"
            /\ UNCHANGED <<out, exitCode>>
    /\ UNCHANGED <<argv, file, message, header, body, calls, headerRet, bodyRet, result>>

\* lines 222-224: os.path.exists(file_path)
ExistsCheck ==
    /\ pc = "exists"
    /\ calls' = Append(calls, "exists")
    /\ IF file.kind = "missing"
       THEN /\ out' = Append(out, Diag("FILE_MISSING", 0, argv[1]))
            /\ exitCode' = 1
            /\ pc' = "exited"
       ELSE /\ pc' = "open"
            /\ UNCHANGED <<out, exitCode>>
    /\ UNCHANGED <<argv, file, message, header, body, headerRet, bodyRet, result>>

\* lines 226-227: open and read the file as UTF-8; a directory or bytes that are not
\* UTF-8 raise, and the exception leaves main
ReadFile ==
    /\ pc = "open"
    /\ calls' = Append(calls, "open")
    /\ IF file.kind = "unreadable"
       THEN /\ pc' = "raised"
            /\ UNCHANGED message
       ELSE /\ message' = file.text
            /\ pc' = "validate"
    /\ UNCHANGED <<argv, file, header, body, out, headerRet, bodyRet, result, exitCode>>

\* (variant: sys.exit(0) whatever validate_commit_message returned)
Exit_Always0 ==
    /\ pc = "returned"
    /\ exitCode' = 0
    /\ pc' = "exited"
    /\ UNCHANGED <<argv, file, message, header, body, out, calls, headerRet, bodyRet, result>>
\* lines 229-232: exit with 1 when validate_commit_message returned False, else with 0
Exit ==
    /\ pc = "returned"
    /\ exitCode' = IF result = "False" THEN 1 ELSE 0
    /\ pc' = "exited"
    /\ UNCHANGED <<argv, file, message, header, body, out, calls, headerRet, bodyRet, result>>

\* an exception nothing catches: the interpreter prints the traceback and exits with 1
Uncaught ==
    /\ pc = "raised"
    /\ exitCode' = 1
    /\ pc' = "exited"
    /\ UNCHANGED <<argv, file, message, header, body, out, calls, headerRet, bodyRet, result>>

---------------------------------------------------------------------------
(* validate_commit_message *)

Return(value) == result' = value /\ pc' = "returned"

\* lines 193-195: a message of nothing but whitespace
EmptyCheck ==
    /\ pc = "validate"
    /\ calls' = Append(calls, "validate")
    /\ IF Strip(message) = <<>>
       THEN /\ out' = Append(out, Diag("EMPTY_MESSAGE", 0, <<>>))
            /\ Return("False")
       ELSE /\ pc' = "merge"
            /\ UNCHANGED <<out, result>>
    /\ UNCHANGED <<argv, file, message, header, body, headerRet, bodyRet, exitCode>>

\* lines 197-199: a merge commit skips the checks
MergeCheck ==
    /\ pc = "merge"
    /\ IF MergeMatch(message)
       THEN /\ out' = Append(out, Diag("MERGE", 0, <<>>))
            /\ Return("True")
       ELSE /\ pc' = "split"
            /\ UNCHANGED <<out, result>>
    /\ UNCHANGED <<argv, file, message, header, body, calls, headerRet, bodyRet, exitCode>>

\* line 201: header, body = message.split('\n', maxsplit=1); unpacking a list of one
\* part raises ValueError
SplitMessage ==
    /\ pc = "split"
    /\ LET parts == Split1(message) IN
       IF Len(parts) = 2
       THEN /\ header' = parts[1]
            /\ body' = parts[2]
            /\ pc' = "header"
            /\ UNCHANGED result
       ELSE /\ result' = "ValueError"
            /\ pc' = "raised"
            /\ UNCHANGED <<header, body>>
    /\ UNCHANGED <<argv, file, message, out, calls, headerRet, bodyRet, exitCode>>

\* (variant: the return value of check_header ignored)
CheckHeader_GoOn ==
    /\ pc = "header"
    /\ calls' = Append(calls, "check_header")
    /\ LET r == check_header(header) IN
       /\ headerRet' = [called |-> TRUE, ok |-> r.ok, out |-> r.out]
       /\ out' = out \o r.out
       /\ pc' = "body"
       /\ UNCHANGED result
    /\ UNCHANGED <<argv, file, message, header, body, bodyRet, exitCode>>
\* lines 203-204: if not check_header(header): return False
CheckHeader ==
    /\ pc = "header"
    /\ calls' = Append(calls, "check_header")
    /\ LET r == check_header(header) IN
       /\ headerRet' = [called |-> TRUE, ok |-> r.ok, out |-> r.out]
       /\ out' = out \o r.out
       /\ IF ~r.ok THEN Return("False")
          ELSE pc' = "body" /\ UNCHANGED result
    /\ UNCHANGED <<argv, file, message, header, body, bodyRet, exitCode>>

\* lines 206-207: if not check_body(body): return False
CheckBody ==
    /\ pc = "body"
    /\ calls' = Append(calls, "check_body")
    /\ LET r == check_body(body) IN
       /\ bodyRet' = [called |-> TRUE, ok |-> r.ok, out |-> r.out]
       /\ out' = out \o r.out
       /\ IF ~r.ok THEN Return("False")
          ELSE pc' = "validated" /\ UNCHANGED result
    /\ UNCHANGED <<argv, file, message, header, body, headerRet, exitCode>>

\* lines 209-210: print VALIDATED and return True
Validated ==
    /\ pc = "validated"
    /\ out' = Append(out, Diag("VALIDATED", 0, <<>>))
    /\ Return("True")
    /\ UNCHANGED <<argv, file, message, header, body, calls, headerRet, bodyRet, exitCode>>

---------------------------------------------------------------------------

Next ==
    \/ ArgCheck
    \/ ExistsCheck
    \/ ReadFile
    \/ EmptyCheck
    \/ MergeCheck
    \/ SplitMessage
    \/ CheckHeader
    \/ CheckBody
    \/ Validated
    \/ Exit
    \/ Uncaught

Spec == Init /\ [][Next]_vars

---------------------------------------------------------------------------
(* Vocabulary of the properties *)

Kinds(ds) == [i \in 1..Len(ds) |-> ds[i].state]

Emitted(ds, kind) == \E i \in 1..Len(ds) : ds[i].state = kind

Last(ds) == ds[Len(ds)]

AllWhitespace(s) == \A i \in 1..Len(s) : s[i] \in {" ", "\t", "\n", "\r", "\f"}

HasNewline(s) == \E i \in 1..Len(s) : s[i] = "\n"

BeginsWithMerge(s) == Len(s) >= 6 /\ SubSeq(s, 1, 6) = <<"M","e","r","g","e"," ">>

HasPrefix(h) == StartsWith(h, FixupPrefix) \/ StartsWith(h, SquashPrefix)

IsRevert(t) == t = <<"r","e","v","e","r","t">> \/ t = <<"R","e","v","e","r","t">>

\* the lines of a text, divided at its newlines only
RECURSIVE LinesOf(_)
LinesOf(s) == IF Len(Split1(s)) = 1 THEN <<s>> ELSE <<Split1(s)[1]>> \o LinesOf(Split1(s)[2])

ValidateCalled == \E i \in 1..Len(calls) : calls[i] = "validate"

\* validate_commit_message has come to its end: it returned or raised
ValidateEnded == result # "none"

ValidateReturned == result \in {"True", "False"}

InChecks == pc \in {"split", "header", "body", "validated"}

FailingKinds ==
    {"EMPTY_MESSAGE", "EMPTY_HEADER", "BAD_HEADER_FORMAT", "BODY_MISSING",
     "NO_BLANK_LINE_BEFORE_BODY", "LINE_OVERLONG"}

---------------------------------------------------------------------------
(* C1: validate_commit_message is total: a message that is not whitespace-only,  *)
(* does not begin with 'Merge ' and holds no newline is taken whole as the       *)
(* header, with the empty string as body, and the call returns True or False     *)
(* (the header check's and then the body check's verdict); no exception escapes. *)
C1_TotalWithoutNewline ==
    (ValidateEnded /\ ~AllWhitespace(message) /\ ~BeginsWithMerge(message) /\ ~HasNewline(message))
        => /\ ValidateReturned
           /\ headerRet.called /\ header = message /\ body = <<>>
           /\ (result = "True") = (headerRet.ok /\ bodyRet.called /\ bodyRet.ok)

(* C2: a message that begins with 'Merge ' succeeds with the one diagnostic MERGE, *)
(* and neither the header check nor the body check runs, whatever follows.         *)
C2_MergeSkipsChecks ==
    (ValidateCalled /\ pc # "merge" /\ BeginsWithMerge(message))
        => /\ result = "True"
           /\ Kinds(out) = <<"MERGE">>
           /\ ~headerRet.called /\ ~bodyRet.called
           /\ ~InChecks

C2_Witness ==
    /\ result = "True" /\ BeginsWithMerge(message)
    /\ Len(LinesOf(message)) >= 2
    /\ Len(LinesOf(message)[1]) > 100
    /\ LinesOf(message)[2] # <<>>

(* C3: the header check fails with LINE_OVERLONG exactly when the header matches  *)
(* the grammar, is longer than 100 characters, has no fixup!/squash! prefix and a *)
(* type other than revert/Revert; the diagnostic carries the header and its       *)
(* character count; an exempt header longer than 100 passes; a header of exactly  *)
(* 100 characters never gives LINE_OVERLONG.                                      *)
C3_HeaderOverlongExactly ==
    headerRet.called =>
        LET m        == HeaderMatch(header)
            overlong == Emitted(headerRet.out, "LINE_OVERLONG")
        IN  /\ (~headerRet.ok /\ overlong)
                 = (m.matched /\ Len(header) > 100 /\ ~HasPrefix(header) /\ ~IsRevert(m.type))
            /\ overlong => /\ Last(headerRet.out).length = Len(header)
                           /\ Last(headerRet.out).text = header
            /\ (m.matched /\ Len(header) > 100 /\ (HasPrefix(header) \/ IsRevert(m.type)))
                 => headerRet.ok
            /\ Len(header) = 100 => ~overlong

C3_Witness ==
    /\ headerRet.called /\ ~headerRet.ok
    /\ Emitted(headerRet.out, "LINE_OVERLONG")
    /\ HeaderMatch(header).type = <<"f","e","a","t">>
    /\ Last(out).length = 101

(* C4, as claimed: for a message that is not whitespace-only and not a merge, any  *)
(* line (the header or a body line) longer than 100 characters that no header      *)
(* exemption covers makes validation fail with LINE_OVERLONG carrying the count of *)
(* an overlong line.  Stated for the messages that hold a newline, the ones the    *)
(* split at line 201 divides into header and body.                                 *)
C4_EveryOverlongLine ==
    (ValidateEnded /\ ~AllWhitespace(message) /\ ~BeginsWithMerge(message) /\ HasNewline(message))
        => LET ls     == LinesOf(message)
               exempt == HasPrefix(ls[1])
                            \/ (HeaderMatch(ls[1]).matched /\ IsRevert(HeaderMatch(ls[1]).type))
               long   == {i \in 1..Len(ls) : Len(ls[i]) > 100 /\ ~(i = 1 /\ exempt)}
           IN  long # {}
                 => /\ result = "False"
                    /\ \E k \in 1..Len(out) :
                          /\ out[k].state = "LINE_OVERLONG"
                          /\ \E i \in 1..Len(ls) : Len(ls[i]) > 100 /\ out[k].length = Len(ls[i])

(* C4, amended: a header that matches the grammar, is longer than 100 characters   *)
(* and has no exemption fails with LINE_OVERLONG carrying the header's count; when *)
(* the header check passed, the body is not whitespace-only and begins with a      *)
(* newline, a line of body.splitlines() longer than 100 characters fails with      *)
(* LINE_OVERLONG carrying the first such line and its count.  A header that does   *)
(* not match the grammar gives EMPTY_HEADER or BAD_HEADER_FORMAT whatever its      *)
(* length, a body whose first line is not empty gives NO_BLANK_LINE_BEFORE_BODY,   *)
(* a whitespace-only body passes whatever the length of its lines, and every       *)
(* LINE_OVERLONG reports a line of more than 100 characters with its own count.    *)
C4_OverlongWhereChecked ==
    /\ headerRet.called =>
          LET m == HeaderMatch(header) IN
          /\ (m.matched /\ Len(header) > 100 /\ ~HasPrefix(header) /\ ~IsRevert(m.type))
                => /\ result = "False"
                   /\ Last(out).state = "LINE_OVERLONG"
                   /\ Last(out).length = Len(header) /\ Last(out).text = header
          /\ ~m.matched
                => /\ result = "False"
                   /\ Kinds(out) \in {<<"EMPTY_HEADER">>, <<"BAD_HEADER_FORMAT">>}
    /\ bodyRet.called =>
          LET ls   == SplitLines(body)
              long == {i \in 1..Len(ls) : Len(ls[i]) > 100}
          IN  /\ (~AllWhitespace(body) /\ body[1] = "\n" /\ long # {})
                    => /\ result = "False"
                       /\ Last(out).state = "LINE_OVERLONG"
                       /\ \E i \in long :
                             /\ \A j \in long : i <= j
                             /\ Last(out).length = Len(ls[i]) /\ Last(out).text = ls[i]
              /\ (~AllWhitespace(body) /\ body[1] # "\n")
                    => ~Emitted(bodyRet.out, "LINE_OVERLONG")
              /\ AllWhitespace(body) => bodyRet.ok /\ bodyRet.out = <<>>
    /\ \A k \in 1..Len(out) :
          out[k].state = "LINE_OVERLONG"
             => /\ out[k].length > 100 /\ out[k].length = Len(out[k].text)
                /\ \/ out[k].text = header
                   \/ \E i \in 1..Len(SplitLines(body)) : out[k].text = SplitLines(body)[i]

C4_Witness ==
    /\ bodyRet.called /\ ~bodyRet.ok
    /\ Emitted(bodyRet.out, "LINE_OVERLONG")
    /\ Last(out).length = 101
    /\ result = "False"

(* C5: every check emits at most one diagnostic per call and a whole validation   *)
(* prints at most one: a header with a type outside TYPE_LIST that is also too    *)
(* long gets one diagnostic, and a message reported as WRONG_TYPE is not reported *)
(* as VALIDATED too.                                                              *)
C5_AtMostOneDiagnostic ==
    /\ Len(headerRet.out) <= 1
    /\ Len(bodyRet.out) <= 1
    /\ Len(out) <= 1
    /\ ~(Emitted(out, "WRONG_TYPE") /\ Emitted(out, "VALIDATED"))

C7_BlankLineFirst ==
    bodyRet.called =>
        /\ headerRet.called /\ headerRet.ok
        /\ (~AllWhitespace(body) /\ body[1] # "\n")
              => /\ ~bodyRet.ok
                 /\ Kinds(bodyRet.out) = <<"NO_BLANK_LINE_BEFORE_BODY">>
                 /\ result = "False"
                 /\ Last(out).state = "NO_BLANK_LINE_BEFORE_BODY"
        /\ AllWhitespace(body)
              => /\ bodyRet.ok
                 /\ bodyRet.out = <<>>
                 /\ ~Emitted(out, "BODY_MISSING")

C7_Witness ==
    /\ bodyRet.called
    /\ Len(body) > 100
    /\ \A i \in 1..101 : body[i] = "x"
    /\ Last(out).state = "NO_BLANK_LINE_BEFORE_BODY"

(* C8: the exit status is decided in a fixed order: no path argument, or an empty  *)
(* one, gives ARG_MISSING and 1 with the file system untouched; else a path that   *)
(* does not exist gives FILE_MISSING and 1 with no validation; else the status is  *)
(* 0 exactly when validation returned success (VALIDATED or MERGE) and 1 for every *)
(* validation failure; no run exits with 0 after a failing diagnostic.             *)
C8_ExitStatus ==
    pc = "exited" =>
        /\ exitCode \in {0, 1}
        /\ IF argv = <<>> \/ argv[1] = <<>>
           THEN /\ exitCode = 1
                /\ Kinds(out) = <<"ARG_MISSING">>
                /\ calls = <<>>
           ELSE IF file.kind = "missing"
           THEN /\ exitCode = 1
                /\ Kinds(out) = <<"FILE_MISSING">>
                /\ out[1].text = argv[1]
                /\ calls = <<"exists">>
                /\ result = "none"
           ELSE /\ (exitCode = 0) = (result = "True")
                /\ result = "True" => Last(out).state \in {"VALIDATED", "MERGE"}
                /\ result = "False" => exitCode = 1 /\ Last(out).state \in FailingKinds
        /\ exitCode = 0
              => \A i \in 1..Len(out) :
                    out[i].state \notin FailingKinds \cup {"ARG_MISSING", "FILE_MISSING"}

C8_Witness ==
    /\ pc = "exited"
    /\ exitCode = 1
    /\ result = "False"
    /\ file.kind = "text"

(* C9: a message of whitespace only (the empty one included) gets the one          *)
(* diagnostic EMPTY_MESSAGE and fails before the merge check, the split and the    *)
(* two checks; a message whose first line is whitespace-only with text on a later  *)
(* line is rejected by the header check with EMPTY_HEADER.                         *)
C9_EmptyMessageAndHeader ==
    /\ (ValidateCalled /\ AllWhitespace(message))
          => /\ result = "False"
             /\ Kinds(out) = <<"EMPTY_MESSAGE">>
             /\ pc \notin {"merge", "split", "header", "body", "validated"}
             /\ ~headerRet.called /\ ~bodyRet.called
    /\ (ValidateEnded /\ ~AllWhitespace(message) /\ HasNewline(message)
           /\ AllWhitespace(LinesOf(message)[1]))
          => /\ result = "False"
             /\ headerRet.called /\ ~headerRet.ok /\ ~bodyRet.called
             /\ Kinds(out) = <<"EMPTY_HEADER">>

C9_Witness ==
    /\ ValidateEnded
    /\ HasNewline(message) /\ ~AllWhitespace(message)
    /\ message[1] = " " /\ message[2] = "\n"
    /\ Kinds(out) = <<"EMPTY_HEADER">>

(* C10: when validate_commit_message returns, its value agrees with the last       *)
(* diagnostic: True exactly with VALIDATED or MERGE last, False exactly with a     *)
(* failing kind last; nothing is printed after a failing diagnostic, the body      *)
(* check does not run after a failed header check, and VALIDATED comes only after  *)
(* both checks passed.                                                             *)
C10_ResultAgreesWithLast ==
    /\ ValidateReturned
          => /\ out # <<>>
             /\ (result = "True") = (Last(out).state \in {"VALIDATED", "MERGE"})
             /\ (result = "False") = (Last(out).state \in FailingKinds)
    /\ \A i \in 1..(Len(out) - 1) : out[i].state \notin FailingKinds
    /\ (headerRet.called /\ ~headerRet.ok) => ~bodyRet.called /\ pc \notin {"body", "validated"}
    /\ Emitted(out, "VALIDATED")
          => headerRet.called /\ headerRet.ok /\ bodyRet.called /\ bodyRet.ok

C10_Witness ==
    /\ result = "False"
    /\ headerRet.called /\ ~headerRet.ok /\ ~bodyRet.called
    /\ Last(out).state = "LINE_OVERLONG"
    /\ Emitted(out, "WRONG_TYPE")

====
